---- MODULE Spec2Model ----
(***************************************************************************)
(* A model of vm-manager (src/index.js): one invocation of the command     *)
(* line tool.  The handler given to program.action runs once; the          *)
(* callbacks of child_process.exec and of setTimeout run later, one at a   *)
(* time, on node's event loop.                                             *)
(***************************************************************************)
EXTENDS Integers, Sequences, FiniteSets, TLC

(* ------------------------------------------------------------------ *)
(* Bounds of the model.                                                 *)
(* ------------------------------------------------------------------ *)

\* A child process exits with a code in 0..MaxExitCode.
MaxExitCode == 2

\* A child process runs for at most MaxRunTime seconds of the model's clock.
MaxRunTime == 1

(* ------------------------------------------------------------------ *)
(* Inputs: argv, the environment, the config file.                      *)
(* ------------------------------------------------------------------ *)

Operations == {"start", "stop", "mount", "unmount", "restart"}

VmNames == {"dev", "db"}

Names == {"dev-vm"}
Usernames == {"alice"}
MountPointsHost == {"/mnt/dev"}
Hostnames == {"vmhost"}
SshPorts == {2222}
MountPointsRemote == {"/srv/www"}
MountDelays == {0, 2}

\* What a child process may leave on its captured streams (always strings).
StdoutTexts == {"out"}
StderrTexts == {"", "err"}

HOME == "/home/user"
USERPROFILE == ""

\* The record with no field.
NoFields == <<>>

\* A field that is absent, or present with a value of S.
Opt(f, S) == {NoFields} \cup {f :> v : v \in S}

\* Every VM record the config file may hold for the requested VM.
Records ==
    { n @@ u @@ m @@ h @@ p @@ r @@ d :
        n \in Opt("name", Names),
        u \in Opt("username", Usernames),
        m \in Opt("mount_point_host", MountPointsHost),
        h \in Opt("hostname", Hostnames),
        p \in Opt("ssh_port", SshPorts),
        r \in Opt("mount_point_remote", MountPointsRemote),
        d \in Opt("mount_delay", MountDelays) }

\* The records the config file may hold for a VM that is not the requested one.
OtherRecords ==
    { [name |-> "db-vm"],
      [name |-> "db-vm", username |-> "bob", mount_point_host |-> "/mnt/db"] }

\* Every JSON object the config file may hold, given the requested VM name.
Configs(v) ==
    { a @@ b :
        a \in {NoFields} \cup {v :> r : r \in Records},
        b \in {NoFields} \cup {o :> r : o \in VmNames \ {v}, r \in OtherRecords} }

(* ------------------------------------------------------------------ *)
(* State.                                                               *)
(* ------------------------------------------------------------------ *)

VARIABLES
    operation,   \* argv: <operation>
    vmName,      \* argv: [vm]
    fileKind,    \* the config file: "missing", "unparsable" or "valid"
    fileJson,    \* the JSON object of a valid config file
    pc,          \* "argv": the action handler has not run; "returned": it has
    VMS,         \* the loaded config (NULL until loaded)
    running,     \* child processes in flight
    timers,      \* pending setTimeout timers
    now,         \* the clock, in seconds
    fsLog,       \* history: file system calls made
    execLog,     \* history: exec calls made
    exitLog,     \* history: child process completions delivered
    timerLog,    \* history: setTimeout calls made
    out          \* history: lines written to the console

vars == <<operation, vmName, fileKind, fileJson, pc, VMS, running, timers, now,
          fsLog, execLog, exitLog, timerLog, out>>

\* JavaScript's null.
NULL == [null |-> TRUE]

\* null in the place of a captured stream; exec never passes it (the streams it
\* passes are strings, empty when the child wrote nothing).
NULL_STREAM == "<null>"

\* A makeErrorMsg call without its second argument.
NoVal == ""

(* ------------------------------------------------------------------ *)
(* Library functions.                                                    *)
(* ------------------------------------------------------------------ *)

\* _.contains(list, value)
contains(list, value) == \E i \in 1..Len(list) : list[i] = value

\* _.has(obj, key)
has(obj, key) == obj # NULL /\ key \in DOMAIN obj

\* chalk.<style>(text): one styled run of text.
chalk(style, text) == [style |-> style, text |-> text]

\* console.log / console.error of a line made of styled runs.
consoleLog(s, line) == [s EXCEPT !.out = Append(@, [fn |-> "log", line |-> line])]
consoleError(s, line) == [s EXCEPT !.out = Append(@, [fn |-> "error", line |-> line])]

\* fileExists(path)
fileExists(path) == fileKind # "missing"

\* jsonFile.readFileSync(path, {throws: false})
readFileSync(path) == IF fileKind = "valid" THEN fileJson ELSE NULL

\* The error argument of exec's callback for a child that exited with `code`.
ExecError(code) == IF code = 0 THEN NULL ELSE [code |-> code]

(* ------------------------------------------------------------------ *)
(* The program.                                                          *)
(* ------------------------------------------------------------------ *)

MOUNT_DELAY == 10

CMD_START_VM(name) == "vboxmanage startvm " \o name \o " --type headless"
CMD_STOP_VM(name) == "vboxmanage controlvm " \o name \o " poweroff"
CMD_MOUNT_VM(port, user, host, remote, local) ==
    "sshfs -p " \o ToString(port) \o " " \o user \o "@" \o host \o ":" \o remote \o " " \o local
CMD_UNMOUNT_VM(local) == "umount -f " \o local

getUserHome == IF HOME # "" THEN HOME ELSE USERPROFILE

makeErrorMsg(error, val) ==
    <<chalk("underline.red", "ERROR"), chalk("red", ": " \o error)>>
        \o (IF val # NoVal THEN <<chalk("magenta", " " \o val)>> ELSE <<>>)

\* isMountableVM with || in the place of &&.
isMountableVM_either(vm) == has(vm, "username") \/ has(vm, "mount_point_host")

\* isMountableVM without its test of mount_point_host.
isMountableVM_usernameOnly(vm) == has(vm, "username")

isMountableVM(vm) == has(vm, "username") /\ has(vm, "mount_point_host")

\* The failure test taking every error for a failure.
isFailure_anyError(error) == error # NULL

\* The failure test of every exec callback.
isFailure(error) == error # NULL /\ error.code = 1

\* vm[field]; util.format prints the undefined of an absent field as "undefined".
get(vm, field) == IF field \in DOMAIN vm THEN vm[field] ELSE "undefined"

\* vm[field] = value
put(vm, field, value) ==
    [f \in DOMAIN vm \cup {field} |-> IF f = field THEN value ELSE vm[f]]

\* exec(cmd, callback): spawns the child; `fn` names the function whose
\* callback is given, `callback` the continuation that callback holds.
exec(s, fn, cmd, vm, callback) ==
    [s EXCEPT
        !.running = @ \cup {[fn |-> fn, cmd |-> cmd, vm |-> vm,
                             callback |-> callback, at |-> now]},
        !.execLog = Append(@, [fn |-> fn, cmd |-> cmd, vm |-> vm, at |-> now])]

\* setTimeout(function, ms) of mountVM.
setTimeout(s, cmd, vm, ms) ==
    [s EXCEPT
        !.timers = @ \cup {[cmd |-> cmd, vm |-> vm, due |-> now * 1000 + ms]},
        !.timerLog = Append(@, [cmd |-> cmd, vm |-> vm, ms |-> ms, at |-> now])]

startVM(s, vm, callback) ==
    exec(s, "startVM", CMD_START_VM(get(s.VMS[vm], "name")), vm, callback)

stopVM(s, vm) ==
    exec(consoleLog(s, <<chalk("gray", "Stopping VM...")>>),
         "stopVM", CMD_STOP_VM(get(s.VMS[vm], "name")), vm, "none")

\* mountVM's defaults written over the values the record holds.
mountDefaults_overwrite(r) ==
    put(put(put(r, "ssh_port", 22), "hostname", "localhost"),
        "mount_point_remote", "/home/" \o get(r, "username") \o "/")

\* mountVM's defaults with the default delay written into the record as well.
mountDefaults_writeDelay(r) ==
    LET r1 == IF ~has(r, "ssh_port") THEN put(r, "ssh_port", 22) ELSE r
        r2 == IF ~has(r1, "hostname") THEN put(r1, "hostname", "localhost") ELSE r1
        r3 == IF ~has(r2, "mount_point_remote")
              THEN put(r2, "mount_point_remote", "/home/" \o get(r2, "username") \o "/")
              ELSE r2
    IN  IF ~has(r3, "mount_delay") THEN put(r3, "mount_delay", MOUNT_DELAY) ELSE r3

\* The defaults mountVM writes into the record.
mountDefaults(r) ==
    LET r1 == IF ~has(r, "ssh_port") THEN put(r, "ssh_port", 22) ELSE r
        r2 == IF ~has(r1, "hostname") THEN put(r1, "hostname", "localhost") ELSE r1
    IN  IF ~has(r2, "mount_point_remote")
        THEN put(r2, "mount_point_remote", "/home/" \o get(r2, "username") \o "/")
        ELSE r2

\* mountVM's delay without the default: no delay when the record gives none.
mountDelay_noDefault(r) == IF has(r, "mount_delay") THEN r["mount_delay"] ELSE 0

\* The delay of mountVM, in seconds.
mountDelay(r) == IF has(r, "mount_delay") THEN r["mount_delay"] ELSE MOUNT_DELAY

mountVM(s, vm) ==
    LET r   == mountDefaults(s.VMS[vm])
        s1  == [s EXCEPT !.VMS[vm] = r]
        cmd == CMD_MOUNT_VM(get(r, "ssh_port"), get(r, "username"), get(r, "hostname"),
                            get(r, "mount_point_remote"), get(r, "mount_point_host"))
        s2  == consoleLog(s1, <<chalk("gray", "Mounting VM...")>>)
    IN  setTimeout(s2, cmd, vm, mountDelay(r) * 1000)

unmountVM(s, vm, callback) ==
    exec(consoleLog(s, <<chalk("gray", "Unmounting VM...")>>),
         "unmountVM", CMD_UNMOUNT_VM(get(s.VMS[vm], "mount_point_host")), vm, callback)

startAndMountVM(s, vm) == startVM(s, vm, "mountVM")

\* unmountAndStopVM calling stopVM itself instead of passing it as the callback.
unmountAndStopVM_noWait(s, vm) == stopVM(unmountVM(s, vm, "none"), vm)

unmountAndStopVM(s, vm) == unmountVM(s, vm, "stopVM")

\* callback(): the continuation a chained call passed, if any.
call(s, callback, vm) ==
    CASE callback = "mountVM" -> mountVM(s, vm)
      [] callback = "stopVM"  -> stopVM(s, vm)
      [] OTHER                -> s

\* startVM's callback without the return that follows its failure message.
startVMCallback_noReturn(s, p, error, stdout, stderr) ==
    LET s1 == IF stdout # NULL_STREAM THEN consoleLog(s, <<chalk("gray", stdout)>>) ELSE s
        s2 == IF stderr # NULL_STREAM THEN consoleLog(s1, <<chalk("red", stderr)>>) ELSE s1
        s3 == IF isFailure(error)
              THEN consoleError(s2, makeErrorMsg("Failed to start VM", NoVal))
              ELSE s2
    IN  call(consoleLog(s3, <<chalk("green", "Yo! VM is up and running.")>>),
             p.callback, p.vm)

\* The callback startVM gives to exec.
startVMCallback(s, p, error, stdout, stderr) ==
    LET s1 == IF stdout # NULL_STREAM THEN consoleLog(s, <<chalk("gray", stdout)>>) ELSE s
        s2 == IF stderr # NULL_STREAM THEN consoleLog(s1, <<chalk("red", stderr)>>) ELSE s1
    IN  IF isFailure(error)
        THEN consoleError(s2, makeErrorMsg("Failed to start VM", NoVal))
        ELSE call(consoleLog(s2, <<chalk("green", "Yo! VM is up and running.")>>),
                  p.callback, p.vm)

\* stopVM's callback without the return that follows its failure message.
stopVMCallback_noReturn(s, p, error, stdout, stderr) ==
    LET s1 == IF isFailure(error)
              THEN consoleError(
                     IF stderr # NULL_STREAM
                     THEN consoleLog(s, <<chalk("red", stderr)>>) ELSE s,
                     makeErrorMsg("Failed to stop VM", NoVal))
              ELSE IF stderr # NULL_STREAM
                   THEN consoleLog(s, <<chalk("gray", stderr)>>) ELSE s
    IN  consoleLog(s1, <<chalk("green", "Bye!")>>)

\* stopVM's callback printing stderr in red whatever the outcome.
stopVMCallback_alwaysRed(s, p, error, stdout, stderr) ==
    LET s1 == IF stderr # NULL_STREAM THEN consoleLog(s, <<chalk("red", stderr)>>) ELSE s
    IN  IF isFailure(error)
        THEN consoleError(s1, makeErrorMsg("Failed to stop VM", NoVal))
        ELSE consoleLog(s1, <<chalk("green", "Bye!")>>)

\* The callback stopVM gives to exec.
stopVMCallback(s, p, error, stdout, stderr) ==
    IF isFailure(error)
    THEN LET s1 == IF stderr # NULL_STREAM THEN consoleLog(s, <<chalk("red", stderr)>>) ELSE s
         IN  consoleError(s1, makeErrorMsg("Failed to stop VM", NoVal))
    ELSE LET s1 == IF stderr # NULL_STREAM THEN consoleLog(s, <<chalk("gray", stderr)>>) ELSE s
         IN  consoleLog(s1, <<chalk("green", "Bye!")>>)

\* mountVM's callback trying the mount again when it failed.
mountVMCallback_retry(s, p, error, stdout, stderr) ==
    LET s1 == IF stderr # NULL_STREAM THEN consoleLog(s, <<chalk("red", stderr)>>) ELSE s
    IN  IF isFailure(error)
        THEN mountVM(consoleError(s1, makeErrorMsg("Failed to mount VM", NoVal)), p.vm)
        ELSE consoleLog(s1, <<chalk("gray", "VM mounted at "),
                              chalk("bold", get(s1.VMS[p.vm], "mount_point_host"))>>)

\* mountVM's callback stopping the VM when the mount failed.
mountVMCallback_stopOnFailure(s, p, error, stdout, stderr) ==
    LET s1 == IF stderr # NULL_STREAM THEN consoleLog(s, <<chalk("red", stderr)>>) ELSE s
    IN  IF isFailure(error)
        THEN stopVM(consoleError(s1, makeErrorMsg("Failed to mount VM", NoVal)), p.vm)
        ELSE consoleLog(s1, <<chalk("gray", "VM mounted at "),
                              chalk("bold", get(s1.VMS[p.vm], "mount_point_host"))>>)

\* The callback mountVM's timer gives to exec.
mountVMCallback(s, p, error, stdout, stderr) ==
    LET s1 == IF stderr # NULL_STREAM THEN consoleLog(s, <<chalk("red", stderr)>>) ELSE s
    IN  IF isFailure(error)
        THEN consoleError(s1, makeErrorMsg("Failed to mount VM", NoVal))
        ELSE consoleLog(s1, <<chalk("gray", "VM mounted at "),
                              chalk("bold", get(s1.VMS[p.vm], "mount_point_host"))>>)

\* unmountVM's callback returning after its failure message, as startVM's does.
unmountVMCallback_returnOnFailure(s, p, error, stdout, stderr) ==
    LET s1 == IF stderr # NULL_STREAM THEN consoleLog(s, <<chalk("red", stderr)>>) ELSE s
    IN  IF isFailure(error)
        THEN consoleError(s1, makeErrorMsg("Failed to unmount VM", NoVal))
        ELSE call(consoleLog(s1, <<chalk("gray", "VM has been unmounted.")>>),
                  p.callback, p.vm)

\* The callback unmountVM gives to exec.
unmountVMCallback(s, p, error, stdout, stderr) ==
    LET s1 == IF stderr # NULL_STREAM THEN consoleLog(s, <<chalk("red", stderr)>>) ELSE s
        s2 == IF isFailure(error)
              THEN consoleError(s1, makeErrorMsg("Failed to unmount VM", NoVal))
              ELSE consoleLog(s1, <<chalk("gray", "VM has been unmounted.")>>)
    IN  call(s2, p.callback, p.vm)

\* The function setTimeout runs when mountVM's timer fires.
mountTimerCallback(s, t) == exec(s, "mountVM", t.cmd, t.vm, "none")

\* The branch of the action handler that runs the operation on VMS[vm].
dispatch(s, op, vm) ==
    LET r == s.VMS[vm]
    IN  CASE op = "start" ->
                IF isMountableVM(r) THEN startAndMountVM(s, vm) ELSE startVM(s, vm, "none")
          [] op = "stop" ->
                IF isMountableVM(r) THEN unmountAndStopVM(s, vm) ELSE stopVM(s, vm)
          [] op = "mount" ->
                IF ~isMountableVM(r)
                THEN consoleError(s, makeErrorMsg("Missing mount config.", NoVal))
                ELSE mountVM(s, vm)
          [] op = "unmount" ->
                IF ~isMountableVM(r)
                THEN consoleError(s, makeErrorMsg("Missing mount config.", NoVal))
                ELSE unmountVM(s, vm, "none")
          [] OTHER -> s

\* checkVM without the return that follows its message of a missing name.
checkVM_noReturn(s, op, vm) ==
    IF ~has(s.VMS, vm)
    THEN consoleError(s, makeErrorMsg("No config available for", vm))
    ELSE IF ~has(s.VMS[vm], "name")
    THEN dispatch(consoleError(s, makeErrorMsg("Incorrect config - VM name missing", NoVal)),
                  op, vm)
    ELSE dispatch(s, op, vm)

\* checkVM testing the mount config of mount and unmount before the name.
checkVM_mountFirst(s, op, vm) ==
    IF ~has(s.VMS, vm)
    THEN consoleError(s, makeErrorMsg("No config available for", vm))
    ELSE IF op \in {"mount", "unmount"} /\ ~isMountableVM(s.VMS[vm])
    THEN consoleError(s, makeErrorMsg("Missing mount config.", NoVal))
    ELSE IF ~has(s.VMS[vm], "name")
    THEN consoleError(s, makeErrorMsg("Incorrect config - VM name missing", NoVal))
    ELSE dispatch(s, op, vm)

\* The action handler from its lookup of the VM on: the checks of the record,
\* then the operation.
checkVM(s, op, vm) ==
    IF ~has(s.VMS, vm)
    THEN consoleError(s, makeErrorMsg("No config available for", vm))
    ELSE IF ~has(s.VMS[vm], "name")
    THEN consoleError(s, makeErrorMsg("Incorrect config - VM name missing", NoVal))
    ELSE dispatch(s, op, vm)

\* The action handler from its load of the config file on.
loadConfig(s, op, vm) ==
    LET configFilePath == getUserHome \o "/vvm.config.json"
        s1 == [s EXCEPT !.fsLog = Append(@, "fileExists")]
    IN  IF ~fileExists(configFilePath)
        THEN consoleError(s1, makeErrorMsg("Could not find config file ", configFilePath))
        ELSE
        LET s2 == [s1 EXCEPT !.fsLog = Append(@, "readFileSync"),
                             !.VMS = readFileSync(configFilePath)]
        IN  IF s2.VMS = NULL
            THEN consoleError(s2, makeErrorMsg("Failed to parse config file ", configFilePath))
            ELSE checkVM(s2, op, vm)

\* The action handler testing the operation after it loaded the config.
action_loadFirst(s, op, vm) ==
    LET s1 == loadConfig(s, op, vm)
    IN  IF ~contains(<<"start", "stop", "mount", "unmount">>, op)
        THEN consoleError(s1, makeErrorMsg("Invalid operation", op))
        ELSE s1

\* The handler given to program.action.
action(s, op, vm) ==
    IF ~contains(<<"start", "stop", "mount", "unmount">>, op)
    THEN consoleError(s, makeErrorMsg("Invalid operation", op))
    ELSE loadConfig(s, op, vm)

(* ------------------------------------------------------------------ *)
(* The state machine.                                                    *)
(* ------------------------------------------------------------------ *)

\* The part of the state the program's functions change.
St == [VMS |-> VMS, running |-> running, timers |-> timers, fsLog |-> fsLog,
       execLog |-> execLog, timerLog |-> timerLog, out |-> out]

Commit(s) ==
    /\ VMS' = s.VMS
    /\ running' = s.running
    /\ timers' = s.timers
    /\ fsLog' = s.fsLog
    /\ execLog' = s.execLog
    /\ timerLog' = s.timerLog
    /\ out' = s.out

Init ==
    /\ operation \in Operations
    /\ vmName \in VmNames
    /\ fileKind \in {"missing", "unparsable", "valid"}
    /\ fileJson \in (IF fileKind = "valid" THEN Configs(vmName) ELSE {NoFields})
    /\ pc = "argv"
    /\ VMS = NULL
    /\ running = {}
    /\ timers = {}
    /\ now = 0
    /\ fsLog = <<>>
    /\ execLog = <<>>
    /\ exitLog = <<>>
    /\ timerLog = <<>>
    /\ out = <<>>

\* program.parse(process.argv) runs the action handler, once.
Invoke ==
    /\ pc = "argv"
    /\ pc' = "returned"
    /\ Commit(action(St, operation, vmName))
    /\ UNCHANGED <<operation, vmName, fileKind, fileJson, now, exitLog>>

\* The state in which exec runs the callback of child process p: p has exited.
Reaped(p) == [St EXCEPT !.running = @ \ {p}]

\* A child process exits and exec runs the callback it was given, which leaves
\* the program in state s.
Exit(p, code, stdout, stderr, s) ==
    /\ pc = "returned"
    /\ Commit(s)
    /\ exitLog' = Append(exitLog, [fn |-> p.fn, code |-> code, stdout |-> stdout,
                                   stderr |-> stderr, at |-> now])
    /\ UNCHANGED <<operation, vmName, fileKind, fileJson, pc, now>>

StartExit ==
    \E p \in running, code \in 0..MaxExitCode, so \in StdoutTexts, se \in StderrTexts :
        /\ p.fn = "startVM"
        /\ Exit(p, code, so, se, startVMCallback(Reaped(p), p, ExecError(code), so, se))

StopExit ==
    \E p \in running, code \in 0..MaxExitCode, so \in StdoutTexts, se \in StderrTexts :
        /\ p.fn = "stopVM"
        /\ Exit(p, code, so, se, stopVMCallback(Reaped(p), p, ExecError(code), so, se))

MountExit ==
    \E p \in running, code \in 0..MaxExitCode, so \in StdoutTexts, se \in StderrTexts :
        /\ p.fn = "mountVM"
        /\ Exit(p, code, so, se, mountVMCallback(Reaped(p), p, ExecError(code), so, se))

UnmountExit ==
    \E p \in running, code \in 0..MaxExitCode, so \in StdoutTexts, se \in StderrTexts :
        /\ p.fn = "unmountVM"
        /\ Exit(p, code, so, se, unmountVMCallback(Reaped(p), p, ExecError(code), so, se))

\* mountVM's timer fires, no earlier than its delay.
MountTimer ==
    \E t \in timers :
        /\ pc = "returned"
        /\ now * 1000 >= t.due
        /\ Commit(mountTimerCallback([St EXCEPT !.timers = @ \ {t}], t))
        /\ UNCHANGED <<operation, vmName, fileKind, fileJson, pc, now, exitLog>>

\* A second passes, while a timer is pending or a child process runs.
Tick ==
    /\ pc = "returned"
    /\ \/ \E t \in timers : now * 1000 < t.due
       \/ \E p \in running : now - p.at < MaxRunTime
    /\ now' = now + 1
    /\ UNCHANGED <<operation, vmName, fileKind, fileJson, pc, VMS, running, timers,
                   fsLog, execLog, exitLog, timerLog, out>>

Next ==
    \/ Invoke
    \/ StartExit
    \/ StopExit
    \/ MountExit
    \/ UnmountExit
    \/ MountTimer
    \/ Tick

Spec == Init /\ [][Next]_vars

\* The invocations on the first VM name with a config file that holds no other
\* VM: the other entries of the file are never read.
FairInit == Init /\ vmName = "dev" /\ DOMAIN fileJson \subseteq {"dev"}

\* Those invocations under the scheduling of node's event loop, which does not
\* stop while something can run: the handler runs, a child process spawned
\* completes, time passes, a timer that is due fires.
FairSpec == FairInit /\ [][Next]_vars /\ WF_vars(Next)

(* ------------------------------------------------------------------ *)
(* Properties.                                                           *)
(* ------------------------------------------------------------------ *)

\* The record the config file holds for the requested VM passed the checks of
\* the action handler: the handler reached its dispatch.
Dispatched ==
    /\ pc = "returned"
    /\ operation \in {"start", "stop", "mount", "unmount"}
    /\ fileKind = "valid"
    /\ vmName \in DOMAIN fileJson
    /\ "name" \in DOMAIN fileJson[vmName]

\* The config file's record of the requested VM holds both mount fields.
MountableRecord ==
    /\ "username" \in DOMAIN fileJson[vmName]
    /\ "mount_point_host" \in DOMAIN fileJson[vmName]

Issued(fn) == \E i \in DOMAIN execLog : execLog[i].fn = fn

IssuedCount(fn) == Cardinality({i \in DOMAIN execLog : execLog[i].fn = fn})

Exited(fn) == \E i \in DOMAIN exitLog : exitLog[i].fn = fn

ExitedWith(fn, codes) ==
    \E i \in DOMAIN exitLog : exitLog[i].fn = fn /\ exitLog[i].code \in codes

Printed(fn, line) == \E i \in DOMAIN out : out[i] = [fn |-> fn, line |-> line]

\* C1: start on a mountable record: once the Start command has completed with
\* exit code 1, the Mount command is not issued, and not scheduled, in any state.
C1_FailedStartNeverMounts ==
    (Dispatched /\ operation = "start" /\ MountableRecord
        /\ ExitedWith("startVM", {1}))
    => /\ ~Issued("mountVM")
       /\ timerLog = <<>>
       /\ timers = {}
       /\ running = {}

C1_Witness ==
    /\ Dispatched /\ operation = "start" /\ MountableRecord
    /\ ExitedWith("startVM", {1})
    /\ Printed("error", makeErrorMsg("Failed to start VM", NoVal))

\* C2: stop on a mountable record: Unmount is issued first; Stop is issued
\* exactly when Unmount has completed, whatever its exit code, and never before.
C2_UnmountThenStop ==
    (Dispatched /\ operation = "stop" /\ MountableRecord)
    => /\ Len(execLog) >= 1
       /\ execLog[1].fn = "unmountVM"
       /\ execLog[1].cmd = "umount -f " \o fileJson[vmName]["mount_point_host"]
       /\ Issued("stopVM") <=> Exited("unmountVM")
       /\ \A i \in DOMAIN execLog :
            execLog[i].fn = "stopVM"
            => /\ i = 2
               /\ execLog[i].cmd = "vboxmanage controlvm " \o fileJson[vmName]["name"] \o " poweroff"
               /\ exitLog[1].fn = "unmountVM"
               /\ exitLog[1].at <= execLog[i].at
       /\ Len(execLog) <= 2

C2_Witness ==
    /\ Dispatched /\ operation = "stop" /\ MountableRecord
    /\ ExitedWith("unmountVM", {1})
    /\ Len(execLog) = 2
    /\ execLog[2].fn = "stopVM"

\* The Mount command the spec gives for a record: each of ssh_port, hostname
\* and mount_point_remote as the record gives it, or its default.
ExpectedMountCmd(r) ==
    "sshfs -p "
        \o (IF "ssh_port" \in DOMAIN r THEN ToString(r["ssh_port"]) ELSE "22")
        \o " " \o r["username"] \o "@"
        \o (IF "hostname" \in DOMAIN r THEN r["hostname"] ELSE "localhost")
        \o ":"
        \o (IF "mount_point_remote" \in DOMAIN r
            THEN r["mount_point_remote"]
            ELSE "/home/" \o r["username"] \o "/")
        \o " " \o r["mount_point_host"]

\* The delay of the Mount the spec gives for a record, in seconds.
ExpectedMountDelay(r) == IF "mount_delay" \in DOMAIN r THEN r["mount_delay"] ELSE 10

\* C3: start on a mountable record: Start is issued first; once Start has
\* completed with success the Mount is scheduled or issued, it is issued only
\* after Start completed, and its command takes each parameter from the record,
\* or the default (22, localhost, /home/<username>/) when the record lacks it.
C3_StartThenMountWithDefaults ==
    (Dispatched /\ operation = "start" /\ MountableRecord)
    => /\ Len(execLog) >= 1
       /\ execLog[1].fn = "startVM"
       /\ execLog[1].cmd = "vboxmanage startvm " \o fileJson[vmName]["name"] \o " --type headless"
       /\ ExitedWith("startVM", {0})
            => \/ \E t \in timers : t.cmd = ExpectedMountCmd(fileJson[vmName])
               \/ Issued("mountVM")
       /\ \A i \in DOMAIN execLog :
            execLog[i].fn = "mountVM"
            => /\ i = 2
               /\ execLog[i].cmd = ExpectedMountCmd(fileJson[vmName])
               /\ exitLog[1].fn = "startVM"
               /\ exitLog[1].code # 1
               /\ exitLog[1].at + ExpectedMountDelay(fileJson[vmName]) <= execLog[i].at

C3_Witness ==
    /\ Dispatched /\ operation = "start"
    /\ DOMAIN fileJson[vmName] = {"name", "username", "mount_point_host"}
    /\ ExitedWith("startVM", {0})
    /\ Len(execLog) = 2
    /\ execLog[2].cmd = "sshfs -p 22 alice@localhost:/home/alice/ /mnt/dev"

\* C4: at most one external command is in flight in every state, and a command
\* is spawned only when every command spawned before it has completed.
C4_OneCommandInFlight ==
    /\ Cardinality(running) <= 1
    /\ Len(execLog) = Len(exitLog) + Cardinality(running)
    /\ running # {} => timers = {}

C4_Witness ==
    /\ Len(execLog) = 2
    /\ Len(exitLog) = 1
    /\ Cardinality(running) = 1

\* No external command was issued or scheduled.
NothingIssued ==
    /\ execLog = <<>>
    /\ exitLog = <<>>
    /\ timerLog = <<>>
    /\ running = {}
    /\ timers = {}

\* The one line the invocation printed is this error message.
OnlyError(error, val) ==
    out = << [fn |-> "error",
              line |-> <<[style |-> "underline.red", text |-> "ERROR"],
                         [style |-> "red", text |-> ": " \o error]>>
                       \o (IF val = "" THEN <<>>
                           ELSE <<[style |-> "magenta", text |-> " " \o val]>>)] >>

\* C5: an operation outside start, stop, mount, unmount: "Invalid operation" is
\* the only line reported, the config file is neither tested nor read, and no
\* external command is issued, whatever the config file and the VM name.
C5_InvalidOperation ==
    (pc = "returned" /\ operation \notin {"start", "stop", "mount", "unmount"})
    => /\ OnlyError("Invalid operation", operation)
       /\ fsLog = <<>>
       /\ VMS = NULL
       /\ NothingIssued

C5_Witness ==
    /\ pc = "returned"
    /\ operation = "restart"
    /\ fileKind = "valid"
    /\ vmName \in DOMAIN fileJson
    /\ out # <<>>

\* C6: mount and unmount on a record with a name that lacks username or
\* mount_point_host: "Missing mount config." is the only line reported, no
\* external command is issued, and the loaded config is the file's.
C6_MountNeedsMountConfig ==
    (Dispatched /\ operation \in {"mount", "unmount"} /\ ~MountableRecord)
    => /\ OnlyError("Missing mount config.", "")
       /\ NothingIssued
       /\ VMS = fileJson

C6_Witness ==
    /\ Dispatched /\ operation = "mount"
    /\ "username" \in DOMAIN fileJson[vmName]
    /\ "mount_point_host" \notin DOMAIN fileJson[vmName]
    /\ out # <<>>

\* C7: a record is mountable iff it holds both username and mount_point_host:
\* start and stop chain Mount and Unmount exactly then, mount and unmount are
\* refused exactly otherwise; on a record that is not mountable start issues
\* Start alone, stop issues Stop alone, and neither issues Mount or Unmount.
C7_MountableIffBothFields ==
    Dispatched
    => /\ isMountableVM(fileJson[vmName]) <=> MountableRecord
       /\ operation \in {"mount", "unmount"}
            => (Printed("error", makeErrorMsg("Missing mount config.", NoVal))
                    <=> ~MountableRecord)
       /\ (operation = "start" /\ MountableRecord)
            => execLog[1] = [fn |-> "startVM", cmd |-> CMD_START_VM(fileJson[vmName]["name"]),
                             vm |-> vmName, at |-> 0]
               /\ (running # {} /\ Len(execLog) = 1 => \A p \in running : p.callback = "mountVM")
       /\ (operation = "stop" /\ MountableRecord)
            => execLog[1].fn = "unmountVM"
               /\ (running # {} /\ Len(execLog) = 1 => \A p \in running : p.callback = "stopVM")
       /\ (operation = "start" /\ ~MountableRecord)
            => /\ execLog = <<[fn |-> "startVM", cmd |-> CMD_START_VM(fileJson[vmName]["name"]),
                               vm |-> vmName, at |-> 0]>>
               /\ timerLog = <<>>
               /\ \A p \in running : p.callback = "none"
       /\ (operation = "stop" /\ ~MountableRecord)
            => /\ execLog = <<[fn |-> "stopVM", cmd |-> CMD_STOP_VM(fileJson[vmName]["name"]),
                               vm |-> vmName, at |-> 0]>>
               /\ timerLog = <<>>
               /\ \A p \in running : p.callback = "none"

C7_Witness ==
    /\ Dispatched /\ operation = "start"
    /\ "username" \in DOMAIN fileJson[vmName]
    /\ "mount_point_host" \notin DOMAIN fileJson[vmName]
    /\ ExitedWith("startVM", {0})
    /\ Len(execLog) = 1

\* The failure message and the success confirmation of each command.
FailureLine(fn) ==
    CASE fn = "startVM"   -> makeErrorMsg("Failed to start VM", NoVal)
      [] fn = "stopVM"    -> makeErrorMsg("Failed to stop VM", NoVal)
      [] fn = "mountVM"   -> makeErrorMsg("Failed to mount VM", NoVal)
      [] fn = "unmountVM" -> makeErrorMsg("Failed to unmount VM", NoVal)

SuccessLine(fn) ==
    CASE fn = "startVM"   -> <<chalk("green", "Yo! VM is up and running.")>>
      [] fn = "stopVM"    -> <<chalk("green", "Bye!")>>
      [] fn = "mountVM"   -> <<chalk("gray", "VM mounted at "),
                               chalk("bold", fileJson[vmName]["mount_point_host"])>>
      [] fn = "unmountVM" -> <<chalk("gray", "VM has been unmounted.")>>

\* The exit codes other than 1.
NotOne == (0..MaxExitCode) \ {1}

\* C8: a completion is a failure exactly when its exit code is 1: the failure
\* message is printed iff the command exited with 1, the success confirmation
\* iff it exited with 0 or another code, and after such a Start the chained
\* Mount is scheduled.
C8_FailureIsExitCodeOne ==
    /\ \A fn \in {"startVM", "stopVM", "mountVM", "unmountVM"} :
        Exited(fn) =>
            /\ Printed("error", FailureLine(fn)) <=> ExitedWith(fn, {1})
            /\ Printed("log", SuccessLine(fn)) <=> ExitedWith(fn, NotOne)
    /\ (operation = "start" /\ Dispatched /\ MountableRecord
            /\ ExitedWith("startVM", NotOne))
        => Len(timerLog) = 1
    /\ (operation = "stop" /\ Dispatched /\ MountableRecord
            /\ ExitedWith("unmountVM", NotOne))
        => Issued("stopVM")

C8_Witness ==
    /\ operation = "start" /\ Dispatched /\ MountableRecord
    /\ ExitedWith("startVM", {2})
    /\ Issued("mountVM")
    /\ Printed("log", SuccessLine("startVM"))

\* C9: a valid operation with the config file missing, or unparsable, or
\* without the requested VM, or with a record that lacks name: the error of
\* that case is the only line reported and no external command is issued.
C9_ConfigErrors ==
    (pc = "returned" /\ operation \in {"start", "stop", "mount", "unmount"})
    => /\ fileKind = "missing"
            => OnlyError("Could not find config file ", "/home/user/vvm.config.json")
               /\ NothingIssued /\ VMS = NULL
       /\ fileKind = "unparsable"
            => OnlyError("Failed to parse config file ", "/home/user/vvm.config.json")
               /\ NothingIssued /\ VMS = NULL
       /\ (fileKind = "valid" /\ vmName \notin DOMAIN fileJson)
            => OnlyError("No config available for", vmName)
               /\ NothingIssued /\ VMS = fileJson
       /\ (fileKind = "valid" /\ vmName \in DOMAIN fileJson
                /\ "name" \notin DOMAIN fileJson[vmName])
            => OnlyError("Incorrect config - VM name missing", "")
               /\ NothingIssued /\ VMS = fileJson

C9_Witness ==
    /\ pc = "returned" /\ operation = "start"
    /\ fileKind = "valid" /\ vmName \in DOMAIN fileJson
    /\ DOMAIN fileJson[vmName] = {"username", "mount_point_host"}
    /\ out # <<>>

\* C10: no command is issued twice, and after a Start, a Mount or a Stop that
\* exited with 1 nothing more is issued or scheduled: the commands issued are
\* those that completed.
C10_NoRetry ==
    /\ \A fn \in {"startVM", "stopVM", "mountVM", "unmountVM"} : IssuedCount(fn) <= 1
    /\ Len(timerLog) <= 1
    /\ \A i \in DOMAIN exitLog :
        (exitLog[i].code = 1 /\ exitLog[i].fn \in {"startVM", "mountVM", "stopVM"})
        => /\ i = Len(exitLog)
           /\ Len(execLog) = i
           /\ execLog[i].fn = exitLog[i].fn
           /\ running = {}
           /\ timers = {}
           /\ Len(timerLog) = IssuedCount("mountVM")

C10_Witness ==
    /\ Len(exitLog) = 2
    /\ exitLog[1].fn = "startVM" /\ exitLog[1].code = 0
    /\ exitLog[2].fn = "mountVM" /\ exitLog[2].code = 1
    /\ ~Issued("stopVM")

\* The fields mountVM may add to a record.
DefaultedFields == {"ssh_port", "hostname", "mount_point_remote"}

\* The loaded config is the file's, but for fields of DefaultedFields added to
\* the record of the requested VM.
ConfigAsLoaded ==
    /\ DOMAIN VMS = DOMAIN fileJson
    /\ \A v \in DOMAIN fileJson :
        /\ DOMAIN fileJson[v] \subseteq DOMAIN VMS[v]
        /\ \A f \in DOMAIN fileJson[v] : VMS[v][f] = fileJson[v][f]
        /\ DOMAIN VMS[v] \ DOMAIN fileJson[v]
             \subseteq (IF v = vmName THEN DefaultedFields ELSE {})

\* C11: after the load, the config changes only by mountVM adding ssh_port,
\* hostname or mount_point_remote to the record when it lacks it: no field the
\* file gives is overwritten, no other field is written, no other record is
\* touched, and a step that does not run mountVM leaves the config as it was.
C11_ConfigWrittenOnlyByMountDefaults ==
    /\ [](VMS # NULL => ConfigAsLoaded)
    /\ []((VMS # NULL /\ timerLog = <<>>) => VMS = fileJson)
    /\ [][(VMS' # VMS) => (pc = "argv" \/ Len(timerLog') = Len(timerLog) + 1)]_vars

C11_Witness ==
    /\ VMS # NULL
    /\ VMS # fileJson
    /\ Exited("startVM")
    /\ "hostname" \in DOMAIN fileJson[vmName]
    /\ "ssh_port" \notin DOMAIN fileJson[vmName]
    /\ "mount_delay" \notin DOMAIN VMS[vmName]
    /\ VMS[vmName]["hostname"] = fileJson[vmName]["hostname"]
    /\ VMS[vmName]["ssh_port"] = 22

\* C12: every Mount, asked for by the mount operation or chained after Start,
\* is requested by one timer of mount_delay seconds (the record's, or 10 when
\* the record gives none), and the mount command is spawned by that timer
\* only, no earlier than the delay after the request.
C12_MountAfterDelay ==
    Dispatched
    => /\ Len(timerLog) <= 1
       /\ IssuedCount("mountVM") + Cardinality(timers) = Len(timerLog)
       /\ \A j \in DOMAIN timerLog :
            /\ timerLog[j].ms = ExpectedMountDelay(fileJson[vmName]) * 1000
            /\ timerLog[j].at = (IF operation = "mount" THEN 0 ELSE exitLog[1].at)
            /\ \A t \in timers : t.due = timerLog[j].at * 1000 + timerLog[j].ms
       /\ \A i \in DOMAIN execLog :
            execLog[i].fn = "mountVM"
            => /\ execLog[i].cmd = timerLog[1].cmd
               /\ execLog[i].at >= timerLog[1].at + ExpectedMountDelay(fileJson[vmName])

C12_Witness ==
    /\ Dispatched
    /\ operation = "start"
    /\ "mount_delay" \notin DOMAIN fileJson[vmName]
    /\ Len(execLog) = 2
    /\ execLog[2].fn = "mountVM"
    /\ exitLog[1].at = 1
    /\ execLog[2].at = 11

\* The lines a callback prints for the captured streams of completion e.
StreamLines(e) ==
    CASE e.fn = "startVM" ->
            <<[fn |-> "log", line |-> <<chalk("gray", e.stdout)>>],
              [fn |-> "log", line |-> <<chalk("red", e.stderr)>>]>>
      [] e.fn = "stopVM" ->
            <<[fn |-> "log",
               line |-> <<chalk(IF e.code = 1 THEN "red" ELSE "gray", e.stderr)>>]>>
      [] OTHER ->
            <<[fn |-> "log", line |-> <<chalk("red", e.stderr)>>]>>

\* A line that prints a captured stream of completion e, in gray or in red.
IsStreamLine(l, e) ==
    \E c \in {"gray", "red"}, t \in {e.stdout, e.stderr} : l.line = <<chalk(c, t)>>

\* C13 as the spec states it: every completion has its standard output
\* printed in gray and its standard error printed in red.
C13_EveryStreamPrinted ==
    \A i \in DOMAIN exitLog :
        /\ Printed("log", <<chalk("gray", exitLog[i].stdout)>>)
        /\ Printed("log", <<chalk("red", exitLog[i].stderr)>>)

\* C13, amended: the step that delivers a completion prints first the stream
\* lines of its command and no other stream line: Start its standard output in
\* gray and its standard error in red; Stop its standard error only, in red
\* when it exited with 1 and in gray otherwise; Mount and Unmount their
\* standard error only, in red.
C13_StreamsPrintedPerCommand ==
    [][exitLog' # exitLog =>
        LET e == exitLog'[Len(exitLog')]
            k == Len(StreamLines(e))
            added == SubSeq(out', Len(out) + 1, Len(out'))
        IN  /\ SubSeq(out', 1, Len(out)) = out
            /\ Len(added) > k
            /\ SubSeq(added, 1, k) = StreamLines(e)
            /\ \A i \in (k + 1)..Len(added) : ~IsStreamLine(added[i], e)]_vars

C13_Witness ==
    /\ ExitedWith("stopVM", {0})
    /\ \E i \in DOMAIN exitLog : exitLog[i].fn = "stopVM" /\ exitLog[i].stderr = "err"
    /\ Len(exitLog) = 1
    /\ Printed("log", <<chalk("gray", "err")>>)
    /\ ~Printed("log", <<chalk("red", "err")>>)
    /\ ~Printed("log", <<chalk("gray", "out")>>)

\* The six error conditions of an invocation before any command, each stated
\* on the inputs alone; several may hold at once.
InvalidOperation == operation \notin {"start", "stop", "mount", "unmount"}
ConfigMissing == fileKind = "missing"
ConfigUnparsable == fileKind = "unparsable"
UnknownVM == fileKind = "valid" /\ vmName \notin DOMAIN fileJson
NameMissing ==
    /\ fileKind = "valid"
    /\ vmName \in DOMAIN fileJson
    /\ "name" \notin DOMAIN fileJson[vmName]
NotMountable ==
    /\ operation \in {"mount", "unmount"}
    /\ fileKind = "valid"
    /\ vmName \in DOMAIN fileJson
    /\ ~MountableRecord

\* The error conditions in the order of their precedence, each with the
\* message and the detail value of its report.
PreDispatchErrors ==
    << [holds |-> InvalidOperation, error |-> "Invalid operation", val |-> operation],
       [holds |-> ConfigMissing, error |-> "Could not find config file ",
        val |-> "/home/user/vvm.config.json"],
       [holds |-> ConfigUnparsable, error |-> "Failed to parse config file ",
        val |-> "/home/user/vvm.config.json"],
       [holds |-> UnknownVM, error |-> "No config available for", val |-> vmName],
       [holds |-> NameMissing, error |-> "Incorrect config - VM name missing", val |-> ""],
       [holds |-> NotMountable, error |-> "Missing mount config.", val |-> ""] >>

\* C14: once the handler has returned, the first error condition that holds,
\* in the order invalid operation, config missing, config unparsable, unknown
\* VM, name missing, not mountable (mount and unmount), is the only line
\* reported and nothing is issued; a command is issued or scheduled exactly
\* when no condition holds.
C14_FirstErrorOnly ==
    pc = "returned"
    => /\ \A k \in DOMAIN PreDispatchErrors :
            (PreDispatchErrors[k].holds
                /\ \A j \in 1..(k - 1) : ~PreDispatchErrors[j].holds)
            => /\ OnlyError(PreDispatchErrors[k].error, PreDispatchErrors[k].val)
               /\ NothingIssued
       /\ (execLog # <<>> \/ timerLog # <<>>)
            <=> \A k \in DOMAIN PreDispatchErrors : ~PreDispatchErrors[k].holds

C14_Witness ==
    /\ pc = "returned"
    /\ operation = "unmount"
    /\ NameMissing
    /\ NotMountable
    /\ out # <<>>

\* The handler has returned, no command is in flight and no timer is pending.
Quiescent ==
    /\ pc = "returned"
    /\ running = {}
    /\ timers = {}

\* Some pre-dispatch error condition holds.
PreDispatchError == \E k \in DOMAIN PreDispatchErrors : PreDispatchErrors[k].holds

\* C15: when every child process completes and the timer fires, the invocation
\* reaches a quiescent state and stays there, having issued no command on a
\* pre-dispatch error, one for mount, for unmount and for start or stop on a
\* record that is not mountable, one or two for start and stop on a mountable
\* record, and never more than two.
C15_QuiescentAfterAtMostTwo ==
    /\ <>[]Quiescent
    /\ [](Len(execLog) <= 2)
    /\ [](Quiescent =>
            /\ PreDispatchError => Len(execLog) = 0
            /\ (~PreDispatchError /\ operation \in {"mount", "unmount"})
                => Len(execLog) = 1
            /\ (~PreDispatchError /\ operation \in {"start", "stop"} /\ ~MountableRecord)
                => Len(execLog) = 1
            /\ (~PreDispatchError /\ operation \in {"start", "stop"} /\ MountableRecord)
                => Len(execLog) \in {1, 2})

C15_Witness ==
    /\ Quiescent
    /\ operation = "start"
    /\ Len(execLog) = 2
    /\ Len(exitLog) = 2

\* How many times a line was printed, and how many completions of a command
\* ended with a code of a set.
PrintCount(fn, line) ==
    Cardinality({i \in DOMAIN out : out[i] = [fn |-> fn, line |-> line]})

ExitCount(fn, codes) ==
    Cardinality({i \in DOMAIN exitLog : exitLog[i].fn = fn /\ exitLog[i].code \in codes})

\* C16: each completion prints exactly one outcome line: the failure message
\* of a command was printed once per completion of it with exit code 1, its
\* success confirmation once per completion with another code, and neither
\* was printed otherwise.
C16_OneOutcomeLinePerCompletion ==
    /\ ~Dispatched => exitLog = <<>>
    /\ (Dispatched /\ ~MountableRecord) => ~Exited("mountVM")
    /\ Dispatched =>
        \A fn \in {"startVM", "stopVM", "unmountVM"}
                    \cup (IF MountableRecord THEN {"mountVM"} ELSE {}) :
            /\ PrintCount("error", FailureLine(fn)) = ExitCount(fn, {1})
            /\ PrintCount("log", SuccessLine(fn)) = ExitCount(fn, NotOne)
            /\ PrintCount("log", FailureLine(fn)) = 0
            /\ PrintCount("error", SuccessLine(fn)) = 0

C16_Witness ==
    /\ Dispatched
    /\ operation = "stop"
    /\ ExitCount("unmountVM", {1}) = 1
    /\ ExitCount("stopVM", {2}) = 1
    /\ PrintCount("error", FailureLine("unmountVM")) = 1
    /\ PrintCount("log", SuccessLine("stopVM")) = 1

====
